---- MODULE Spec2Model ----
(***************************************************************************)
(* A model of the maze grid of src/main.rs: the Maze struct (two flat wall *)
(* vectors), its coordinate and direction arithmetic, carve / passage, the *)
(* row-major MazeIterator and the binary-tree generator.                   *)
(*                                                                         *)
(* Option<T> is modelled as a sequence of length at most one: None is <<>> *)
(* and Some(v) is <<v>>.  A Vec<bool> is a sequence; Rust's index i is     *)
(* position i + 1 of the sequence, and an index outside 0 .. len-1 is a    *)
(* panic.  usize values stay far below usize::MAX in every run, so `+`     *)
(* never overflows; subtraction below zero is made explicit where the code *)
(* has it (checked_sub).                                                   *)
(***************************************************************************)
EXTENDS Integers, Sequences, FiniteSets

\* ---------------------------------------------------------------- bounds
\* Grids of at most MaxCells cells are constructed (width * height).
MaxCells == 9
\* binary_tree is run on grids of at most MaxCellsBT cells.
MaxCellsBT == 16
\* The iterator is asked for up to ExtraNext items after its first None.
ExtraNext == 2

VARIABLES
  width,        \* Maze.width   (the `width` argument of Maze::new)
  height,       \* Maze.height  (the `height` argument of Maze::new)
  east_walls,   \* Maze.east_walls
  south_walls,  \* Maze.south_walls
  op,           \* the method that ran last
  ret,          \* what it returned ("Panic": it did not return)
  iter,         \* the live MazeIterator: None, or Some([n |-> ..])
  items,        \* the points the live iterator has yielded, in order
  exhausted,    \* the live iterator has returned None at least once
  i,            \* binary_tree's loop variable
  log           \* binary_tree: per loop iteration, the cell and what it carved

vars == <<width, height, east_walls, south_walls, op, ret,
          iter, items, exhausted, i, log>>

\* ------------------------------------------------------------ value types
None == <<>>
Some(v) == <<v>>

Dir == {"North", "South", "East", "West"}

Point(px, py) == [x |-> px, y |-> py]

\* The Maze value the methods take as `self`.
self == [width |-> width, height |-> height,
         east_walls |-> east_walls, south_walls |-> south_walls]

\* vec![true; n]   (n < 0 stands for a usize underflow: no vector is built)
vec_true(n) == [k \in 1..n |-> TRUE]

\* Maze::new, had it tested `width > 0 || height > 0`.
MazeNew_either(w, h) ==
  IF w > 0 \/ h > 0
    THEN [result |-> "Ok",
          east_walls |-> vec_true(h * (w - 1)),
          south_walls |-> vec_true(w * (h - 1))]
    ELSE [result |-> "Err", east_walls |-> <<>>, south_walls |-> <<>>]

\* ------------------------------------------------------------- Maze::new
MazeNew(w, h) ==
  IF w > 0 /\ h > 0
    THEN [result |-> "Ok",
          east_walls |-> vec_true(h * (w - 1)),
          south_walls |-> vec_true(w * (h - 1))]
    ELSE [result |-> "Err", east_walls |-> <<>>, south_walls |-> <<>>]

\* ----------------------------------------------------------- coordinates
valid(m, point) == point.x < m.width /\ point.y < m.height

edge(m, point) ==
  valid(m, point) /\
    (point.x = 0 \/ point.y = 0 \/
       point.x = m.width - 1 \/ point.y = m.height - 1)

\* corner, had it compared with width and height in place of width - 1 and
\* height - 1.
corner_past_end(m, point) ==
  (point.x = 0 \/ point.x = m.width) /\
    (point.y = 0 \/ point.y = m.height)

corner(m, point) ==
  (point.x = 0 \/ point.x = m.width - 1) /\
    (point.y = 0 \/ point.y = m.height - 1)

translate(point, dir) ==
  CASE dir = "North" -> IF point.y >= 1 THEN Some(Point(point.x, point.y - 1))
                                        ELSE None
    [] dir = "South" -> Some(Point(point.x, point.y + 1))
    [] dir = "East"  -> Some(Point(point.x + 1, point.y))
    [] dir = "West"  -> IF point.x >= 1 THEN Some(Point(point.x - 1, point.y))
                                        ELSE None

neighbor(m, point, dir) ==
  LET n == translate(point, dir)
  IN  IF n = None THEN None
      ELSE IF valid(m, n[1]) THEN n ELSE None

\* nth_point, had it divided by height.
nth_point_by_height(m, n) ==
  LET pt == Point(n % m.width, n \div m.height)
  IN  IF valid(m, pt) THEN Some(pt) ELSE None

nth_point(m, n) ==
  LET pt == Point(n % m.width, n \div m.width)
  IN  IF valid(m, pt) THEN Some(pt) ELSE None

\* ------------------------------------------------------ passage and carve
\* passage's slot, had North read the south wall of the cell itself.
passage_slot_own_south(m, point, dir) ==
  CASE dir = "North" -> [vec |-> "south", idx |-> point.x + m.width * point.y]
    [] dir = "South" -> [vec |-> "south", idx |-> point.x + m.width * point.y]
    [] dir = "East"  -> [vec |-> "east",  idx |-> point.x + (m.width - 1) * point.y]
    [] dir = "West"  -> [vec |-> "east",  idx |-> point.x - 1 + (m.width - 1) * point.y]

\* The wall slot `passage` reads: which vector, and the index into it.
passage_slot(m, point, dir) ==
  CASE dir = "North" -> [vec |-> "south", idx |-> point.x + m.width * (point.y - 1)]
    [] dir = "South" -> [vec |-> "south", idx |-> point.x + m.width * point.y]
    [] dir = "East"  -> [vec |-> "east",  idx |-> point.x + (m.width - 1) * point.y]
    [] dir = "West"  -> [vec |-> "east",  idx |-> point.x - 1 + (m.width - 1) * point.y]

\* carve's slot, had East used the row stride of the south walls.
carve_slot_wide_east(m, point, dir) ==
  CASE dir = "North" -> [vec |-> "south", idx |-> point.x + m.width * (point.y - 1)]
    [] dir = "South" -> [vec |-> "south", idx |-> point.x + m.width * point.y]
    [] dir = "East"  -> [vec |-> "east",  idx |-> point.x + m.width * point.y]
    [] dir = "West"  -> [vec |-> "east",  idx |-> point.x - 1 + (m.width - 1) * point.y]

\* The wall slot `carve` writes.
carve_slot(m, point, dir) ==
  CASE dir = "North" -> [vec |-> "south", idx |-> point.x + m.width * (point.y - 1)]
    [] dir = "South" -> [vec |-> "south", idx |-> point.x + m.width * point.y]
    [] dir = "East"  -> [vec |-> "east",  idx |-> point.x + (m.width - 1) * point.y]
    [] dir = "West"  -> [vec |-> "east",  idx |-> point.x - 1 + (m.width - 1) * point.y]

walls_of(m, slot) == IF slot.vec = "south" THEN m.south_walls ELSE m.east_walls

\* Vec indexing: the index is checked against the length, else a panic.
in_range(m, slot) == slot.idx >= 0 /\ slot.idx < Len(walls_of(m, slot))

\* passage(point, dir) panics: a neighbor exists and the index is out of range.
passage_panics(m, point, dir) ==
  neighbor(m, point, dir) # None /\ ~in_range(m, passage_slot(m, point, dir))

\* passage(point, dir), where it returns.
passage(m, point, dir) ==
  IF neighbor(m, point, dir) # None
    THEN ~walls_of(m, passage_slot(m, point, dir))[passage_slot(m, point, dir).idx + 1]
    ELSE FALSE

\* carve, had it flipped the flag instead of clearing it.
carve_toggle(m, point, dir) ==
  LET slot == carve_slot(m, point, dir)
      unchanged(r) == [ret |-> r, east_walls |-> m.east_walls,
                       south_walls |-> m.south_walls]
  IN  IF neighbor(m, point, dir) # None
        THEN IF ~in_range(m, slot)
               THEN unchanged("Panic")
             ELSE IF slot.vec = "south"
               THEN [ret |-> "Ok", east_walls |-> m.east_walls,
                     south_walls |-> [m.south_walls EXCEPT ![slot.idx + 1] = ~@]]
               ELSE [ret |-> "Ok", south_walls |-> m.south_walls,
                     east_walls |-> [m.east_walls EXCEPT ![slot.idx + 1] = ~@]]
        ELSE unchanged("Err")

\* carve, had it returned Ok(()) where there is no neighbor.
carve_unchecked(m, point, dir) ==
  LET slot == carve_slot(m, point, dir)
      unchanged(r) == [ret |-> r, east_walls |-> m.east_walls,
                       south_walls |-> m.south_walls]
  IN  IF neighbor(m, point, dir) # None
        THEN IF ~in_range(m, slot)
               THEN unchanged("Panic")
             ELSE IF slot.vec = "south"
               THEN [ret |-> "Ok", east_walls |-> m.east_walls,
                     south_walls |-> [m.south_walls EXCEPT ![slot.idx + 1] = FALSE]]
               ELSE [ret |-> "Ok", south_walls |-> m.south_walls,
                     east_walls |-> [m.east_walls EXCEPT ![slot.idx + 1] = FALSE]]
        ELSE unchanged("Ok")

\* carve(point, dir): the result and the two vectors afterwards.
carve(m, point, dir) ==
  LET slot == carve_slot(m, point, dir)
      unchanged(r) == [ret |-> r, east_walls |-> m.east_walls,
                       south_walls |-> m.south_walls]
  IN  IF neighbor(m, point, dir) # None
        THEN IF ~in_range(m, slot)
               THEN unchanged("Panic")
             ELSE IF slot.vec = "south"
               THEN [ret |-> "Ok", east_walls |-> m.east_walls,
                     south_walls |-> [m.south_walls EXCEPT ![slot.idx + 1] = FALSE]]
               ELSE [ret |-> "Ok", south_walls |-> m.south_walls,
                     east_walls |-> [m.east_walls EXCEPT ![slot.idx + 1] = FALSE]]
        ELSE unchanged("Err")

cell(m, point) ==
  [north |-> passage(m, point, "North"), south |-> passage(m, point, "South"),
   east |-> passage(m, point, "East"), west |-> passage(m, point, "West")]

\* ------------------------------------------------------------ the program
\* Coordinates a caller may pass (usize: never negative): the cells and two
\* more columns and rows.  x = width is off the grid with its West neighbor on
\* it; x = width + 1 has no neighbor on the grid, as every larger x.
Coords == {Point(px, py) : px \in 0..(width + 1), py \in 0..(height + 1)}

Bool(b) == IF b THEN "true" ELSE "false"

\* let m = Maze::new(width, height)
New(w, h) ==
  LET r == MazeNew(w, h)
  IN  /\ width = w /\ height = h
      /\ east_walls = r.east_walls /\ south_walls = r.south_walls
      /\ op = "new" /\ ret = r.result
      /\ iter = None /\ items = <<>> /\ exhausted = FALSE
      /\ i = 0 /\ log = <<>>

\* A Maze exists (Maze::new returned Ok) and no call has panicked.
alive == ~(op = "new" /\ ret = "Err") /\ ret # "Panic"

\* m.carve(point, dir)
Carve(point, dir) ==
  LET r == carve(self, point, dir)
  IN  /\ alive
      /\ east_walls' = r.east_walls /\ south_walls' = r.south_walls
      /\ op' = "carve" /\ ret' = r.ret
      /\ UNCHANGED <<width, height, iter, items, exhausted, i, log>>

\* m.passage(point, dir)
Passage(point, dir) ==
  /\ alive
  /\ op' = "passage"
  /\ ret' = IF passage_panics(self, point, dir) THEN "Panic"
            ELSE Bool(passage(self, point, dir))
  /\ UNCHANGED <<width, height, east_walls, south_walls,
                 iter, items, exhausted, i, log>>

\* m.corner(point)
Corner(point) ==
  /\ alive
  /\ op' = "corner" /\ ret' = Bool(corner(self, point))
  /\ UNCHANGED <<width, height, east_walls, south_walls,
                 iter, items, exhausted, i, log>>

\* m.iter()
Iter ==
  /\ alive
  /\ iter' = Some([n |-> 0])
  /\ items' = <<>> /\ exhausted' = FALSE
  /\ op' = "iter" /\ ret' = "MazeIterator"
  /\ UNCHANGED <<width, height, east_walls, south_walls, i, log>>

\* MazeIterator::next
IterNext ==
  /\ alive /\ iter # None
  /\ iter[1].n < width * height + ExtraNext
  /\ LET pt == nth_point(self, iter[1].n)
     IN  /\ iter' = Some([n |-> iter[1].n + 1])
         /\ items' = IF pt # None THEN Append(items, pt[1]) ELSE items
         /\ exhausted' = (exhausted \/ pt = None)
         /\ op' = "next" /\ ret' = IF pt # None THEN "Some" ELSE "None"
  /\ UNCHANGED <<width, height, east_walls, south_walls, i, log>>

\* binary_tree's choice, had the top row (East only) carved nothing.
binary_tree_dir_no_east(m, pt, coin) ==
  LET n == neighbor(m, pt, "North") # None
      e == neighbor(m, pt, "East") # None
  IN  IF n /\ ~e THEN Some("North")
      ELSE IF n /\ e THEN (IF coin THEN Some("North") ELSE Some("East"))
      ELSE None

\* binary_tree's choice, had the two one-way branches been swapped.
binary_tree_dir_swapped(m, pt, coin) ==
  LET n == neighbor(m, pt, "North") # None
      e == neighbor(m, pt, "East") # None
  IN  IF n /\ ~e THEN Some("East")
      ELSE IF e /\ ~n THEN Some("North")
      ELSE IF n /\ e THEN (IF coin THEN Some("North") ELSE Some("East"))
      ELSE None

\* binary_tree, the body of one loop iteration: the direction to carve, if any.
\* `coin` is the value of rand::random().
binary_tree_dir(m, pt, coin) ==
  LET n == neighbor(m, pt, "North") # None
      e == neighbor(m, pt, "East") # None
  IN  IF n /\ ~e THEN Some("North")
      ELSE IF e /\ ~n THEN Some("East")
      ELSE IF n /\ e THEN (IF coin THEN Some("North") ELSE Some("East"))
      ELSE None

\* m.binary_tree() is entered, on the Maze as Maze::new returned it.
BinaryTree ==
  /\ op = "new" /\ ret = "Ok"
  /\ op' = "binary_tree" /\ ret' = "running"
  /\ i' = 0 /\ log' = <<>>
  /\ UNCHANGED <<width, height, east_walls, south_walls, iter, items, exhausted>>

\* One iteration of binary_tree's loop, for index i.
BinaryTreeStep(coin) ==
  /\ op = "binary_tree" /\ ret = "running"
  /\ i < width * height
  /\ i' = i + 1
  /\ LET nth == nth_point(self, i)
         dir == IF nth = None THEN None ELSE binary_tree_dir(self, nth[1], coin)
         r   == IF dir = None
                  THEN [ret |-> "Ok", east_walls |-> east_walls,
                        south_walls |-> south_walls]
                  ELSE carve(self, nth[1], dir[1])
     IN  /\ east_walls' = r.east_walls /\ south_walls' = r.south_walls
         \* .expect(""): anything but Ok(()) is a panic
         /\ ret' = IF r.ret = "Ok" THEN "running" ELSE "Panic"
         /\ log' = Append(log, [i |-> i, visited |-> nth, carved |-> dir,
                                result |-> r.ret])
  /\ UNCHANGED <<width, height, op, iter, items, exhausted>>

\* The range 0..width*height is exhausted: binary_tree returns.
BinaryTreeReturn ==
  /\ op = "binary_tree" /\ ret = "running"
  /\ i = width * height
  /\ ret' = "Ok"
  /\ UNCHANGED <<width, height, east_walls, south_walls, op,
                 iter, items, exhausted, i, log>>

\* ------------------------------------------------------ the specifications
\* Spec: a Maze of any size, then any sequence of carve calls.
Init == \E w \in 0..MaxCells, h \in 0..MaxCells : w * h <= MaxCells /\ New(w, h)

Next ==
  \E point \in Coords, dir \in Dir : Carve(point, dir)

Spec == Init /\ [][Next]_vars

\* SpecIter: a Maze of any size, borrowed immutably: iterators over it and
\* queries (as maze_iterator_test, lines 231-237).
NextIter ==
  \/ Iter
  \/ IterNext
  \/ \E point \in Coords : Corner(point)
  \/ \E point \in Coords, dir \in Dir : Passage(point, dir)

SpecIter == Init /\ [][NextIter]_vars

\* SpecBT: main (lines 272-276): Maze::new, then binary_tree once.
InitBT == \E w \in 0..MaxCellsBT, h \in 0..MaxCellsBT : w * h <= MaxCellsBT /\ New(w, h)

NextBT ==
  \/ BinaryTree
  \/ \E coin \in BOOLEAN : BinaryTreeStep(coin)
  \/ BinaryTreeReturn

SpecBT == InitBT /\ [][NextBT]_vars

\* ------------------------------------------------- vocabulary of the claims
\* Maze::new returned Ok: a Maze exists.
constructed == ~(op = "new" /\ ret = "Err")

\* The valid coordinates of m.
Cells(m) == {Point(px, py) : px \in 0..(m.width - 1), py \in 0..(m.height - 1)}

\* m with the wall vectors a carve left behind.
after(m, r) == [width |-> m.width, height |-> m.height,
                east_walls |-> r.east_walls, south_walls |-> r.south_walls]

\* The opposite direction: the one that leads back.
opposite(d) ==
  CASE d = "North" -> "South" [] d = "South" -> "North"
    [] d = "East" -> "West"   [] d = "West" -> "East"

\* The number of wall flags in which two grids differ.
flags_changed(m1, m2) ==
  Cardinality({k \in 1..Len(m1.east_walls) : m1.east_walls[k] # m2.east_walls[k]}) +
  Cardinality({k \in 1..Len(m1.south_walls) : m1.south_walls[k] # m2.south_walls[k]})

\* The number of open (carved) walls.
open_walls(m) ==
  Cardinality({k \in 1..Len(m.east_walls) : ~m.east_walls[k]}) +
  Cardinality({k \in 1..Len(m.south_walls) : ~m.south_walls[k]})

\* The cells reachable through passages: `seen` are reached already, and
\* `frontier` are those of them whose passages have not been followed yet.
RECURSIVE reach(_, _, _)
reach(m, seen, frontier) ==
  IF frontier = {} THEN seen
  ELSE LET open == {w \in frontier \X Dir : passage(m, w[1], w[2])}
           next == {neighbor(m, w[1], w[2])[1] : w \in open} \ seen
       IN  reach(m, seen \cup next, next)

\* The cells reachable from p through passages.
reachable(m, p) == reach(m, {p}, {p})

\* ------------------------------------------------------------------ claims

\* C2: in every state reached from a fresh grid by carve calls, for every
\* valid p and direction d with neighbor q, passage(p, d) returns, and equals
\* passage(q, opposite d); and carve(p, d) makes both true.
C2_Symmetry ==
  constructed =>
    \A p \in Cells(self), d \in Dir :
      neighbor(self, p, d) # None =>
      LET q == neighbor(self, p, d)[1]
          e == opposite(d)
          r == carve(self, p, d)
      IN  /\ neighbor(self, q, e) = Some(p)
          /\ ~passage_panics(self, p, d) /\ ~passage_panics(self, q, e)
          /\ passage(self, p, d) = passage(self, q, e)
          /\ r.ret = "Ok"
          /\ ~passage_panics(after(self, r), p, d)
          /\ ~passage_panics(after(self, r), q, e)
          /\ passage(after(self, r), p, d)
          /\ passage(after(self, r), q, e)

\* C2's case: a carve has returned Ok, some wall is open and another, in the
\* same grid, still closed.
C2_Witness ==
  /\ op = "carve" /\ ret = "Ok"
  /\ \E p \in Cells(self), d \in Dir : passage(self, p, d)
  /\ \E p \in Cells(self), d \in Dir :
       neighbor(self, p, d) # None /\ ~passage(self, p, d)

\* C3 (as claimed): passage never indexes a wall vector out of range, for any
\* coordinate, on or off the grid, and any direction; and it returns false
\* whenever the coordinate is off-grid or the direction points off the grid.
C3_PassageTotal ==
  constructed =>
    \A p \in Coords, d \in Dir :
      /\ ~passage_panics(self, p, d)
      /\ (~valid(self, p) \/ neighbor(self, p, d) = None) => ~passage(self, p, d)

\* C6: Maze::new returns BoundsError exactly when width = 0 or height = 0;
\* otherwise the vectors have height*(width-1) and width*(height-1) entries,
\* all true (closed), and passage is false for every valid p and every d.
C6_New ==
  op = "new" =>
    /\ ret = "Err" <=> (width = 0 \/ height = 0)
    /\ ret = "Ok" =>
         /\ Len(east_walls) = height * (width - 1)
         /\ Len(south_walls) = width * (height - 1)
         /\ \A k \in 1..Len(east_walls) : east_walls[k]
         /\ \A k \in 1..Len(south_walls) : south_walls[k]
         /\ \A p \in Cells(self), d \in Dir :
              ~passage_panics(self, p, d) /\ ~passage(self, p, d)

\* C6's case: Maze::new has returned Ok with walls of both kinds.
C6_Witness ==
  op = "new" /\ ret = "Ok" /\ Len(east_walls) > 1 /\ Len(south_walls) > 1

\* C7: for every valid p and direction d with no neighbor, carve(p, d)
\* returns BoundsError and leaves both vectors as they were; with a neighbor,
\* it returns Ok.
C7_CarveResult ==
  constructed =>
    \A p \in Cells(self), d \in Dir :
      LET r == carve(self, p, d)
      IN  /\ neighbor(self, p, d) = None =>
               /\ r.ret = "Err"
               /\ r.east_walls = east_walls /\ r.south_walls = south_walls
          /\ neighbor(self, p, d) # None => r.ret = "Ok"

\* C7's case: a carve has returned BoundsError on a grid that has open walls.
C7_Witness == op = "carve" /\ ret = "Err" /\ open_walls(self) > 0

\* C8, one call: after carve(p, d), a second carve(p, d), or carve(q, opposite
\* d) from the neighbor q, returns Ok and leaves the grid as the first left
\* it, with passage(p, d) true.
C8_Again ==
  constructed =>
    \A p \in Cells(self), d \in Dir :
      neighbor(self, p, d) # None =>
      LET q  == neighbor(self, p, d)[1]
          e  == opposite(d)
          r1 == carve(self, p, d)
          m1 == after(self, r1)
          r2 == carve(m1, p, d)
          r3 == carve(m1, q, e)
      IN  /\ r1.ret = "Ok" /\ r2.ret = "Ok" /\ r3.ret = "Ok"
          /\ after(self, r2) = m1 /\ after(self, r3) = m1
          /\ ~passage_panics(m1, p, d) /\ passage(after(self, r2), p, d)

\* C8, any sequence of calls: a wall that is open stays open.
C8_StaysOpen ==
  /\ Len(east_walls') = Len(east_walls) /\ Len(south_walls') = Len(south_walls)
  /\ \A k \in 1..Len(east_walls) : ~east_walls[k] => ~east_walls'[k]
  /\ \A k \in 1..Len(south_walls) : ~south_walls[k] => ~south_walls'[k]

\* C8: carve is idempotent, and no sequence of carve calls closes an open wall.
C8_Idempotent == []C8_Again /\ [][C8_StaysOpen]_vars

\* C8's case: a carve has returned Ok on a grid all of whose walls were
\* already open, so it was a second carve of its wall.
C8_Witness ==
  /\ op = "carve" /\ ret = "Ok"
  /\ open_walls(self) = Len(east_walls) + Len(south_walls)
  /\ open_walls(self) > 1

\* What C9 says of carve(p, d) on m besides the count of changed flags: it
\* returns Ok; afterwards passage is true between p and its neighbor q, from
\* both sides; every other pair of adjacent cells reads as before; the vectors
\* keep their lengths.
carve_frame(m, p, d) ==
  LET q  == neighbor(m, p, d)[1]
      e  == opposite(d)
      r  == carve(m, p, d)
      m1 == after(m, r)
  IN  /\ r.ret = "Ok"
      /\ Len(m1.east_walls) = Len(m.east_walls)
      /\ Len(m1.south_walls) = Len(m.south_walls)
      /\ ~passage_panics(m1, p, d) /\ passage(m1, p, d)
      /\ ~passage_panics(m1, q, e) /\ passage(m1, q, e)
      /\ \A p2 \in Cells(m), d2 \in Dir :
           (neighbor(m, p2, d2) # None /\ <<p2, d2>> \notin {<<p, d>>, <<q, e>>}) =>
             passage(m1, p2, d2) = passage(m, p2, d2)

\* Distinct internal walls have distinct slots: two (cell, direction) pairs
\* with the same slot are the same wall, seen from one side or from both.
slots_distinct(m) ==
  \A p \in Cells(m), d \in Dir, p2 \in Cells(m), d2 \in Dir :
    (/\ neighbor(m, p, d) # None /\ neighbor(m, p2, d2) # None
     /\ carve_slot(m, p, d) = carve_slot(m, p2, d2)) =>
      \/ <<p2, d2>> = <<p, d>>
      \/ <<p2, d2>> = <<neighbor(m, p, d)[1], opposite(d)>>

\* C9 (as claimed): a successful carve(p, d) changes exactly one wall flag;
\* passage is then true between p and q and as before for every other pair of
\* adjacent cells; distinct walls never share a slot.
C9_ExactlyOne ==
  constructed =>
    /\ \A p \in Cells(self), d \in Dir :
         neighbor(self, p, d) # None =>
           /\ flags_changed(self, after(self, carve(self, p, d))) = 1
           /\ carve_frame(self, p, d)
    /\ op = "new" => slots_distinct(self)

\* C9 (amended), the state part: a successful carve(p, d) changes exactly one
\* wall flag when the wall between p and q was closed and none when it was
\* open already; the rest as claimed.  (Every grid the program reaches is
\* looked at in the state the call that made it left, ret = "Ok": a call that
\* returns Err or panics leaves the vectors as they were.  The slots depend on
\* width and height alone, which no call changes: they are compared once per
\* grid.)
C9_State ==
  (constructed /\ ret = "Ok") =>
    /\ \A p \in Cells(self), d \in Dir :
         neighbor(self, p, d) # None =>
           /\ flags_changed(self, after(self, carve(self, p, d))) =
                (IF passage(self, p, d) THEN 0 ELSE 1)
           /\ carve_frame(self, p, d)
    /\ op = "new" => slots_distinct(self)

\* C9 (amended), the step part: no carve changes width, height or the length
\* of a wall vector, and none changes more than one flag.
C9_Step ==
  /\ width' = width /\ height' = height
  /\ Len(east_walls') = Len(east_walls) /\ Len(south_walls') = Len(south_walls)
  /\ flags_changed(self, self') <= 1

\* C9 (amended).
C9_AtMostOne == []C9_State /\ [][C9_Step]_vars

\* C9's case: a carve has returned Ok and left a grid with open and closed walls.
C9_Witness ==
  /\ op = "carve" /\ ret = "Ok" /\ width > 2 /\ height > 2
  /\ open_walls(self) > 2
  /\ open_walls(self) < Len(east_walls) + Len(south_walls)

\* C3's case, for the record: passage has panicked.
C3_Panicked == op = "passage" /\ ret = "Panic"

\* C4 (as claimed): some grid with width > 0 and height > 0 has a coordinate
\* that is not valid in it and for which corner returns true.  (A statement
\* about all grids at once, looked at wherever a Maze exists.)
C4_SpuriousCorner ==
  constructed =>
  \E w \in 1..MaxCells, h \in 1..MaxCells :
    /\ w * h <= MaxCells
    /\ \E px \in 0..(w + 1), py \in 0..(h + 1) :
         LET m == [width |-> w, height |-> h]
         IN  corner(m, Point(px, py)) /\ ~valid(m, Point(px, py))

\* C4 (amended): corner is not gated on valid, yet it never returns true for
\* a coordinate that is not valid: x = 0 or x = width - 1 is below width, and
\* so for y.  An invalid coordinate that shares its x or its y with a true
\* corner gets false.
C4_CornerIsValid ==
  constructed =>
    \A p \in Coords :
      /\ corner(self, p) => valid(self, p)
      /\ (~valid(self, p) /\ (p.x \in {0, width - 1} \/ p.y \in {0, height - 1}))
           => ~corner(self, p)
      /\ (op = "corner" /\ ret = "true") => \E c \in Cells(self) : corner(self, c)

\* C4's case: corner has returned false on a grid where an invalid coordinate
\* lies in the column of a true corner and another in the row of one.
C4_Witness ==
  /\ op = "corner" /\ ret = "false" /\ width > 1 /\ height > 1
  /\ \E p \in Coords : ~valid(self, p) /\ p.x = width - 1 /\ ~corner(self, p)
  /\ \E p \in Coords : ~valid(self, p) /\ p.y = 0 /\ ~corner(self, p)

\* C5: an iterator yields exactly width*height coordinates before its first
\* None (and none after), each valid, none twice, the k-th being
\* (k mod width, k div width); nth_point(n) is Some iff n < width*height; and
\* iter() starts at the first cell again.
C5_Iterator ==
  constructed =>
    /\ \A k \in 1..Len(items) :
         /\ items[k] = Point((k - 1) % width, (k - 1) \div width)
         /\ valid(self, items[k])
         /\ \A j \in 1..(k - 1) : items[j] # items[k]
    /\ Len(items) <= width * height
    /\ exhausted => Len(items) = width * height
    /\ (iter # None /\ ~exhausted) => Len(items) = iter[1].n
    /\ op = "iter" => (iter = Some([n |-> 0]) /\ items = <<>>)
    /\ \A n \in 0..(width * height + ExtraNext) :
         nth_point(self, n) # None <=> n < width * height

\* C5's case: an iterator over a grid of several rows and columns has given
\* all its items and then None.
C5_Witness ==
  /\ op = "next" /\ ret = "None" /\ exhausted
  /\ width > 1 /\ height > 1 /\ width # height
  /\ Len(items) = width * height

\* C1: after binary_tree has run once on a fresh grid, every cell is reachable
\* from every other through passages and exactly width*height - 1 walls are
\* open: the passages form a spanning tree.
C1_SpanningTree ==
  (op = "binary_tree" /\ ret = "Ok") =>
    /\ \A p \in Cells(self) : reachable(self, p) = Cells(self)
    /\ open_walls(self) = width * height - 1

\* C1's case: binary_tree has returned on a grid with cells that flip a coin.
C1_Witness ==
  op = "binary_tree" /\ ret = "Ok" /\ width > 2 /\ height > 2

\* C10: binary_tree visits the cells in increasing index order; no carve
\* fails; the top-right cell (width-1, 0) carves nothing and is the only one;
\* every other cell carves once, North or East; a top-row cell East, a
\* rightmost-column cell North.  Each carve opens a wall of its own.
C10_BinaryTreeSteps ==
  op = "binary_tree" =>
    /\ ret # "Panic"
    /\ Len(log) = i
    /\ ret = "Ok" => Len(log) = width * height
    /\ \A k \in 1..Len(log) :
         /\ log[k].i = k - 1
         /\ log[k].visited = Some(Point((k - 1) % width, (k - 1) \div width))
         /\ log[k].result = "Ok"
         /\ LET pt == log[k].visited[1]
                topright == Point(width - 1, 0)
            IN  /\ log[k].carved = None <=> pt = topright
                /\ log[k].carved \in {None, Some("North"), Some("East")}
                /\ (pt.y = 0 /\ pt # topright) => log[k].carved = Some("East")
                /\ (pt.x = width - 1 /\ pt # topright) => log[k].carved = Some("North")
    /\ open_walls(self) = Cardinality({k \in 1..Len(log) : log[k].carved # None})

\* C10's case: binary_tree is past a coin-flipping cell of the second row,
\* having carved East in the top row and North somewhere.
C10_Witness ==
  /\ op = "binary_tree" /\ width > 2 /\ height > 2 /\ i > width + 1
  /\ \E k \in 1..Len(log) : log[k].carved = Some("North")
  /\ \E k \in 1..Len(log) : log[k].carved = None

====
